---------------------------- MODULE Spec2Model ----------------------------
(***************************************************************************)
(* A model of collect-coverage-action: src/src/coverage.ts.                *)
(*                                                                         *)
(* run(opts) reads one coverage report in one of four formats, normalizes  *)
(* it to a CoverageSummary (lines/statements/branches/functions, each with *)
(* total/covered/skipped/pct) and publishCoverage posts one record per     *)
(* flavor whose pct is finite.                                             *)
(*                                                                         *)
(* Numbers are JavaScript numbers.  They are modelled as tagged values:    *)
(* a finite number is a reduced fraction n/d (d > 0), and NaN, Infinity    *)
(* and the string 'Unknown' (the pct of a blank istanbul summary) are      *)
(* values of their own.  Floating-point rounding is not modelled.          *)
(*                                                                         *)
(* The calls into istanbul-lib-coverage (createCoverageSummary, merge,     *)
(* toSummary, percent) are modelled by what that library does at the call  *)
(* sites of coverage.ts; each definition names its call site.              *)
(***************************************************************************)
EXTENDS Integers, Sequences, FiniteSets, TLC

VARIABLES
    opts,       \* the Opts value run() was called with
    file,       \* the parsed contents of the file opts.coverage names
    pc,         \* "start" | "awaiting" (a fetch is in flight) | "done" | "failed"
    summary,    \* <<>> until run() assigns `summary`, then <<CoverageSummary>>
    idx,        \* position in the flavor loop of publishCoverage
    requests,   \* the bodies of the fetch calls issued, in order
    responses,  \* the responses received, in order
    logs,       \* the records written by console.log, in order
    error       \* the error run() rejected with, or NoError

vars == <<opts, file, pc, summary, idx, requests, responses, logs, error>>

---------------------------------------------------------------------------
(* Bounds of the model.                                                    *)

\* The longest sequence of LCOV section records.
MaxSections == 2

\* The largest number of files in an istanbul coverage map.
MaxFiles == 2

\* The largest number of flavor keys under `total` in a summary file.
MaxKeys == 2

---------------------------------------------------------------------------
(* JavaScript numbers.                                                     *)

Abs(x) == IF x < 0 THEN -x ELSE x

RECURSIVE GCD(_, _)
GCD(a, b) == IF b = 0 THEN a ELSE GCD(b, a % b)

\* The finite number n/d, d > 0, in lowest terms.
Rat(n, d) ==
    LET g == GCD(Abs(n), d)
    IN  [k |-> "num", n |-> n \div g, d |-> d \div g]

Num(n) == Rat(n, 1)

NaN == [k |-> "NaN", n |-> 0, d |-> 1]

Infinity == [k |-> "Infinity", n |-> 0, d |-> 1]

\* The string 'Unknown', the pct of a blank istanbul-lib-coverage bucket.
Unknown == [k |-> "Unknown", n |-> 0, d |-> 1]

\* undefined: a property that is absent.
Undefined == [k |-> "undefined", n |-> 0, d |-> 1]

IsNum(x) == x.k = "num"

\* Number.isFinite: true of finite numbers only (not of NaN, of an infinity,
\* or of a value that is not a number, such as a string).
NumberIsFinite(x) == x.k = "num"

\* a + b on numbers; undefined converts to NaN.
Add(a, b) ==
    IF IsNum(a) /\ IsNum(b) THEN Rat(a.n * b.d + b.n * a.d, a.d * b.d)
    ELSE NaN

\* a * b on numbers.
Mul(a, b) ==
    IF IsNum(a) /\ IsNum(b) THEN Rat(a.n * b.n, a.d * b.d)
    ELSE NaN

\* a / b on non-negative numbers.
Div(a, b) ==
    IF IsNum(a) /\ IsNum(b)
    THEN IF b.n = 0
         THEN (IF a.n = 0 THEN NaN ELSE Infinity)
         ELSE IF b.n > 0 THEN Rat(a.n * b.d, a.d * b.n)
              ELSE Rat(-(a.n * b.d), a.d * (-b.n))
    ELSE NaN

\* Math.floor.
Floor(a) == IF IsNum(a) THEN Num(a.n \div a.d) ELSE a

\* x ?? 0
OrZero(x) == IF x.k = "undefined" THEN Num(0) ELSE x

---------------------------------------------------------------------------
(* Number(string): the conversion of an XML attribute value.               *)

Digits == <<"0", "1", "2", "3", "4", "5", "6", "7", "8", "9">>

IsDigit(c) == \E i \in 1..Len(Digits) : Digits[i] = c

DigitVal(c) == (CHOOSE i \in 1..Len(Digits) : Digits[i] = c) - 1

AllDigits(s) == \A i \in 1..Len(s) : IsDigit(s[i])

RECURSIVE DigitsVal(_)
DigitsVal(s) ==
    IF s = <<>> THEN 0
    ELSE DigitsVal(SubSeq(s, 1, Len(s) - 1)) * 10 + DigitVal(s[Len(s)])

RECURSIVE Pow10(_)
Pow10(e) == IF e = 0 THEN 1 ELSE 10 * Pow10(e - 1)

\* An attribute of the root element as fast-xml-parser returns it: a string
\* (parseAttributeValue is off), or absent.
Attr(text) == [present |-> TRUE, text |-> text]

Missing == [present |-> FALSE, text |-> <<>>]

\* Number(v) of an attribute value: undefined gives NaN, the empty string 0, a
\* decimal literal (digits with at most one point, at least one digit) its
\* value, and any other text NaN.
Number(v) ==
    IF ~v.present THEN NaN
    ELSE IF v.text = <<>> THEN Num(0)
    ELSE LET t == v.text
             dots == {i \in 1..Len(t) : t[i] = "."}
         IN  IF dots = {}
             THEN (IF AllDigits(t) THEN Num(DigitsVal(t)) ELSE NaN)
             ELSE IF Cardinality(dots) > 1 THEN NaN
             ELSE LET p == CHOOSE i \in dots : TRUE
                      ip == SubSeq(t, 1, p - 1)
                      fp == SubSeq(t, p + 1, Len(t))
                  IN  IF AllDigits(ip) /\ AllDigits(fp) /\ Len(ip) + Len(fp) > 0
                      THEN Rat(DigitsVal(ip) * Pow10(Len(fp)) + DigitsVal(fp),
                               Pow10(Len(fp)))
                      ELSE NaN

---------------------------------------------------------------------------
(* The summary shape.                                                      *)

Flavors == {"lines", "statements", "branches", "functions"}

\* The flavors in alphabetical order.
FlavorOrderAlphabetical == <<"branches", "functions", "lines", "statements">>

\* The loop order of publishCoverage.
FlavorOrder == <<"branches", "statements", "functions", "lines">>

\* The flavors coverageRecordsToSummary sums.
flavors == <<"branches", "functions", "lines">>

Bucket(t, c, s, p) == [total |-> t, covered |-> c, skipped |-> s, pct |-> p]

\* libCoverage.createCoverageSummary() without data: every bucket is
\* {total: 0, covered: 0, skipped: 0, pct: 'Unknown'}.
createCoverageSummary == [f \in Flavors |-> Bucket(Num(0), Num(0), Num(0), Unknown)]

\* A percent that leaves out the final division by 100.
percentUnscaled(covered, total) ==
    IF IsNum(total) /\ total.n > 0
    THEN Floor(Div(Div(Mul(Num(100000), covered), total), Num(10)))
    ELSE Num(100)

\* istanbul-lib-coverage's percent(covered, total), which CoverageSummary.merge
\* and FileCoverage.toSummary apply: floor(1000 * 100 * covered / total / 10) / 100
\* when total > 0, and 100 otherwise.
percent(covered, total) ==
    IF IsNum(total) /\ total.n > 0
    THEN Div(Floor(Div(Div(Mul(Num(100000), covered), total), Num(10))), Num(100))
    ELSE Num(100)

\* A merge that adds the counts and keeps the pct stored in the object merged in.
mergeCopyingPct(this, obj) ==
    [key \in Flavors |->
        IF key \in DOMAIN obj
        THEN Bucket(Add(this[key].total, obj[key].total),
                    Add(this[key].covered, obj[key].covered),
                    Add(this[key].skipped, obj[key].skipped),
                    obj[key].pct)
        ELSE this[key]]

\* CoverageSummary.merge(obj): for each key obj holds, the counts are added to
\* this summary's and pct is set to percent(covered, total) of the sums.
merge(this, obj) ==
    [key \in Flavors |->
        IF key \in DOMAIN obj
        THEN LET t == Add(this[key].total, obj[key].total)
                 c == Add(this[key].covered, obj[key].covered)
                 k == Add(this[key].skipped, obj[key].skipped)
             IN  Bucket(t, c, k, percent(c, t))
        ELSE this[key]]

\* The result of a load: the summary, or the error it threw.
Returned(s) == [ok |-> TRUE, value |-> <<s>>, error |-> "none"]

Thrown(e) == [ok |-> FALSE, value |-> <<>>, error |-> e]

---------------------------------------------------------------------------
(* istanbul: generateSummary.                                              *)

\* The entries of a hit map that were hit.
CoveredCount(hits) == Cardinality({i \in 1..Len(hits) : hits[i] > 0})

\* fileCoverage.toSummary(): each flavor's total is the number of entries of its
\* hit map, covered the number hit, pct their percent.  A file's hit maps are s
\* (statements), f (functions) and b (branch paths); every statement is on a
\* line of its own, so the line counts are the statement counts.
toSummary(fc) ==
    LET of(hits) == Bucket(Num(Len(hits)), Num(CoveredCount(hits)), Num(0),
                           percent(Num(CoveredCount(hits)), Num(Len(hits))))
    IN  [f \in Flavors |->
            CASE f = "lines" -> of(fc.s)
              [] f = "statements" -> of(fc.s)
              [] f = "functions" -> of(fc.f)
              [] f = "branches" -> of(fc.b)]

RECURSIVE mergeFiles(_, _)
mergeFiles(files, acc) ==
    IF files = <<>> THEN acc
    ELSE mergeFiles(Tail(files), merge(acc, toSummary(Head(files))))

generateSummary(content) == Returned(mergeFiles(content, createCoverageSummary))

---------------------------------------------------------------------------
(* lcov: coverageRecordsToSummary and loadLCOV.                            *)

\* One section: the sub-records it carries are added to the running counts.
addSection(data, section) ==
    [f \in Flavors |->
        IF f \in DOMAIN section
        THEN [data[f] EXCEPT
                 !.total = Add(@, OrZero(section[f].instrumented)),
                 !.covered = Add(@, OrZero(section[f].hit))]
        ELSE data[f]]

RECURSIVE sumSections(_, _)
sumSections(records, data) ==
    IF records = <<>> THEN data
    ELSE sumSections(Tail(records), addSection(data, Head(records)))

IsSummed(f) == \E i \in 1..Len(flavors) : flavors[i] = f

\* An aggregation that divides without looking at a total of 0.
coverageRecordsToSummaryUnguarded(records) ==
    LET initial == [f \in Flavors |->
                       Bucket(Num(0), Num(0), Num(0),
                              IF f = "lines" THEN Num(0) ELSE NaN)]
        data == sumSections(records, initial)
    IN  [f \in Flavors |->
            IF IsSummed(f)
            THEN [data[f] EXCEPT
                     !.pct = Mul(Div(data[f].covered, data[f].total), Num(100))]
            ELSE data[f]]

coverageRecordsToSummary(records) ==
    LET initial == [f \in Flavors |->
                       Bucket(Num(0), Num(0), Num(0),
                              IF f = "lines" THEN Num(0) ELSE NaN)]
        data == sumSections(records, initial)
    IN  [f \in Flavors |->
            IF IsSummed(f)
            THEN [data[f] EXCEPT
                     !.pct = IF data[f].total = Num(0) THEN Num(100)
                             ELSE Mul(Div(data[f].covered, data[f].total), Num(100))]
            ELSE data[f]]

loadLCOV(content) == Returned(coverageRecordsToSummary(content))

---------------------------------------------------------------------------
(* cobertura: loadCobertura.                                               *)

\* A load that derives pct from the counts instead of the rate attributes.
loadCoberturaRecomputed(content) ==
    IF ~content.hasRoot
    THEN Thrown("TypeError")
    ELSE LET a == content.attrs
         IN  Returned(
               [f \in Flavors |->
                 CASE f = "lines" ->
                        Bucket(Number(a["lines-valid"]), Number(a["lines-covered"]),
                               Num(0),
                               Mul(Div(Number(a["lines-covered"]),
                                       Number(a["lines-valid"])), Num(100)))
                   [] f = "branches" ->
                        Bucket(Number(a["branches-valid"]), Number(a["branches-covered"]),
                               Num(0),
                               Mul(Div(Number(a["branches-covered"]),
                                       Number(a["branches-valid"])), Num(100)))
                   [] OTHER -> Bucket(Num(0), Num(0), Num(0), NaN)])

loadCobertura(content) ==
    IF ~content.hasRoot
    THEN Thrown("TypeError")    \* report.coverage is undefined
    ELSE LET a == content.attrs
         IN  Returned(
               [f \in Flavors |->
                 CASE f = "lines" ->
                        Bucket(Number(a["lines-valid"]), Number(a["lines-covered"]),
                               Num(0), Mul(Number(a["line-rate"]), Num(100)))
                   [] f = "branches" ->
                        Bucket(Number(a["branches-valid"]), Number(a["branches-covered"]),
                               Num(0), Mul(Number(a["branch-rate"]), Num(100)))
                   [] OTHER -> Bucket(Num(0), Num(0), Num(0), NaN)])

---------------------------------------------------------------------------
(* summary: loadSummary.                                                   *)

\* data.total is <<>> when the JSON has no `total` key and <<obj>> when it has.
loadSummary(content) ==
    IF content.total = <<>>
    THEN Thrown("AssertionError")
    ELSE Returned(merge(createCoverageSummary, content.total[1]))

---------------------------------------------------------------------------
(* run: the format dispatch.                                               *)

Suffix == <<".", "j", "s", "o", "n">>

\* /\.json$/.test(name)
TestJson(name) ==
    /\ Len(name) >= Len(Suffix)
    /\ SubSeq(name, Len(name) - Len(Suffix) + 1, Len(name)) = Suffix

\* A dispatch that does not check the file name.
normalizeAnyName(o, content) ==
    IF o.coverageFormat = "summary" THEN loadSummary(content)
    ELSE IF o.coverageFormat = "istanbul" THEN generateSummary(content)
    ELSE IF o.coverageFormat = "lcov" THEN loadLCOV(content)
    ELSE IF o.coverageFormat = "cobertura" THEN loadCobertura(content)
    ELSE Thrown("UnknownFormat")

\* The if-chain of run: the summary of the file, or the error thrown.
normalize(o, content) ==
    IF o.coverageFormat = "summary"
    THEN (IF TestJson(o.coverage) THEN loadSummary(content)
          ELSE Thrown("AssertionError"))
    ELSE IF o.coverageFormat = "istanbul"
    THEN (IF TestJson(o.coverage) THEN generateSummary(content)
          ELSE Thrown("AssertionError"))
    ELSE IF o.coverageFormat = "lcov" THEN loadLCOV(content)
    ELSE IF o.coverageFormat = "cobertura" THEN loadCobertura(content)
    ELSE Thrown("UnknownFormat")

---------------------------------------------------------------------------
(* publishCoverage.                                                        *)

NoError == [name |-> "none", status |-> 0, statusText |-> ""]

Failure(name) == [name |-> name, status |-> 0, statusText |-> ""]

\* new Error(`Failed to publish coverage: ${response.status} ${response.statusText}`)
PublishError(response) ==
    [name |-> "PublishError", status |-> response.status,
     statusText |-> response.statusText]

\* The record built for a flavor.
Data(flavor, coverage, o) ==
    [project |-> o.project, flavor |-> flavor, value |-> coverage[flavor].pct,
     tag |-> o.tag, covered_items |-> coverage[flavor].covered,
     total_items |-> coverage[flavor].total]

\* A guard that publishes without a token.
EligibleWithoutToken(flavor, coverage, o) == NumberIsFinite(coverage[flavor].pct)

\* A guard that publishes every flavor.
EligibleAnyPct(flavor, coverage, o) == o.token # ""

\* The two guards around the body of the loop: Number.isFinite(pct) and
\* opts.token (a string is truthy unless empty).
Eligible(flavor, coverage, o) ==
    NumberIsFinite(coverage[flavor].pct) /\ o.token # ""

\* The loop from position i up to its next await: the records logged on the
\* way (dry run), and the position of the flavor to fetch for, or
\* Len(FlavorOrder) + 1 when the loop ends.
RECURSIVE loop(_, _, _, _)
loop(i, coverage, o, logged) ==
    IF i > Len(FlavorOrder) THEN [stop |-> i, logs |-> logged]
    ELSE IF Eligible(FlavorOrder[i], coverage, o)
         THEN IF o.dryRun
              THEN loop(i + 1, coverage, o,
                        Append(logged, Data(FlavorOrder[i], coverage, o)))
              ELSE [stop |-> i, logs |-> logged]
         ELSE loop(i + 1, coverage, o, logged)

\* publishCoverage from position i until it awaits a fetch or returns.
publishCoverage(i, coverage) ==
    LET r == loop(i, coverage, opts, logs)
    IN  /\ logs' = r.logs
        /\ idx' = r.stop
        /\ IF r.stop <= Len(FlavorOrder)
           THEN /\ requests' = Append(requests, Data(FlavorOrder[r.stop], coverage, opts))
                /\ pc' = "awaiting"
           ELSE /\ requests' = requests
                /\ pc' = "done"

---------------------------------------------------------------------------
(* The inputs.                                                             *)

Formats == {"summary", "istanbul", "lcov", "cobertura"}

\* The file names: a.json and a.info.
FileNames == {<<"a", ".", "j", "s", "o", "n">>, <<"a", ".", "i", "n", "f", "o">>}

OptsSet ==
    [coverage : FileNames, token : {"", "secret"}, project : {"project"},
     tag : {"main"}, url : {"https://coverage.example/api"},
     dryRun : BOOLEAN, coverageFormat : Formats \cup {"clover"}]

\* summary files: no `total`, or a `total` with at most MaxKeys of the flavors.
SummaryBuckets ==
    {Bucket(Num(t), Num(c), Num(0), p) :
        t \in {0, 10}, c \in {0, 7, 12}, p \in {Num(70), Num(50)}}

SummaryFiles ==
    {[total |-> <<>>]} \cup
    {[total |-> <<obj>>] :
        obj \in UNION {[K -> SummaryBuckets] :
                         K \in {K \in SUBSET Flavors : Cardinality(K) <= MaxKeys}}}

\* istanbul coverage maps: at most MaxFiles files, each with its hit maps.
FileCoverages == [s : {<<>>, <<1, 0>>}, f : {<<>>, <<3>>}, b : {<<>>, <<0>>}]

IstanbulFiles == UNION {[1..n -> FileCoverages] : n \in 0..MaxFiles}

\* LCOV reports: at most MaxSections sections, each carrying some sub-records.
Sub(i, h) == [instrumented |-> i, hit |-> h]

SubRecords(f) ==
    CASE f = "lines" -> {Sub(Num(10), Num(5)), Sub(Num(20), Num(15))}
      [] f = "branches" -> {Sub(Num(4), Undefined)}
      [] f = "functions" -> {Sub(Num(1), Num(2))}

Sections ==
    {sec \in UNION {[K -> UNION {SubRecords(f) : f \in K}] :
                      K \in SUBSET {"branches", "functions", "lines"}} :
        \A f \in DOMAIN sec : sec[f] \in SubRecords(f)}

LcovFiles == UNION {[1..n -> Sections] : n \in 0..MaxSections}

\* Cobertura reports: the six attributes of the root element, or no root.
CoberturaAttrs ==
    {("lines-valid" :> lv @@ "lines-covered" :> lc @@ "line-rate" :> lr @@
      "branches-valid" :> bv @@ "branches-covered" :> bc @@ "branch-rate" :> br) :
        lv \in {Attr(<<"5", "0">>), Attr(<<"2", "5">>)},
        lc \in {Attr(<<"2", "5">>), Attr(<<"5", "0">>)},
        lr \in {Attr(<<"0", ".", "5">>), Attr(<<"1", ".", "5">>), Attr(<<"1">>)},
        bv \in {Missing, Attr(<<"0">>), Attr(<<"2">>)},
        bc \in {Missing, Attr(<<"0">>)},
        br \in {Missing, Attr(<<"0">>), Attr(<<>>)}}

CoberturaFiles ==
    {[hasRoot |-> TRUE, attrs |-> a] : a \in CoberturaAttrs} \cup
    {[hasRoot |-> FALSE, attrs |-> <<>>]}

FilesFor(format) ==
    CASE format = "summary" -> SummaryFiles
      [] format = "istanbul" -> IstanbulFiles
      [] format = "lcov" -> LcovFiles
      [] format = "cobertura" -> CoberturaFiles
      [] OTHER -> {<<>>}

\* The responses a fetch resolves with.
Responses ==
    {[status |-> 204, statusText |-> "No Content"],
     [status |-> 300, statusText |-> "Multiple Choices"],
     [status |-> 500, statusText |-> "Internal Server Error"]}

\* response.ok
Ok(response) == response.status >= 200 /\ response.status <= 299

---------------------------------------------------------------------------
(* The state machine.                                                      *)

Init ==
    /\ opts \in OptsSet
    /\ file \in FilesFor(opts.coverageFormat)
    /\ pc = "start"
    /\ summary = <<>>
    /\ idx = 0
    /\ requests = <<>>
    /\ responses = <<>>
    /\ logs = <<>>
    /\ error = NoError

\* run(opts) up to its first await of a fetch: the dispatch, the load, and
\* publishCoverage entered with the summary.
run ==
    /\ pc = "start"
    /\ LET r == normalize(opts, file)
       IN  IF r.ok
           THEN /\ summary' = r.value
                /\ error' = NoError
                /\ publishCoverage(1, r.value[1])
           ELSE /\ summary' = <<>>
                /\ error' = Failure(r.error)
                /\ pc' = "failed"
                /\ UNCHANGED <<idx, requests, logs>>
    /\ UNCHANGED <<opts, file, responses>>

\* A response that is not ok is taken as ok.
ResponseNotOkIgnored ==
    /\ pc = "awaiting"
    /\ \E response \in Responses :
        /\ ~Ok(response)
        /\ responses' = Append(responses, response)
        /\ publishCoverage(idx + 1, summary[1])
    /\ UNCHANGED <<opts, file, summary, error>>

\* The fetch resolves with a response that is ok: the loop goes on.
ResponseOk ==
    /\ pc = "awaiting"
    /\ \E response \in Responses :
        /\ Ok(response)
        /\ responses' = Append(responses, response)
        /\ publishCoverage(idx + 1, summary[1])
    /\ UNCHANGED <<opts, file, summary, error>>

\* The fetch resolves with a response that is not ok: publishCoverage throws.
ResponseNotOk ==
    /\ pc = "awaiting"
    /\ \E response \in Responses :
        /\ ~Ok(response)
        /\ responses' = Append(responses, response)
        /\ error' = PublishError(response)
        /\ pc' = "failed"
    /\ UNCHANGED <<opts, file, summary, idx, requests, logs>>

\* The fetch rejects (a transport failure): the rejection propagates.
FetchRejects ==
    /\ pc = "awaiting"
    /\ error' = Failure("FetchError")
    /\ pc' = "failed"
    /\ UNCHANGED <<opts, file, summary, idx, requests, responses, logs>>

Next == run \/ ResponseOk \/ ResponseNotOk \/ FetchRejects

Spec == Init /\ [][Next]_vars

---------------------------------------------------------------------------
(* What the properties below speak of.                                     *)

\* run has assigned `summary`: normalization succeeded.
Loaded == summary # <<>>

\* The flavor order the specification names.
StatedOrder == <<"branches", "statements", "functions", "lines">>

IsFinitePct(p) == p.k = "num"

\* The flavors of the summary with a finite pct, in the stated order.
FiniteInOrder == SelectSeq(StatedOrder, LAMBDA f : IsFinitePct(summary[1][f].pct))

\* The record of the i-th of them.
ExpectedRecord(i) ==
    LET f == FiniteInOrder[i]
    IN  [project |-> opts.project, flavor |-> f, value |-> summary[1][f].pct,
         tag |-> opts.tag, covered_items |-> summary[1][f].covered,
         total_items |-> summary[1][f].total]

ExpectedRecords == [i \in 1..Len(FiniteInOrder) |-> ExpectedRecord(i)]

Position(f) == CHOOSE i \in 1..Len(StatedOrder) : StatedOrder[i] = f

Is2xx(response) == response.status \in 200..299

---------------------------------------------------------------------------
(* C1: with a token and no dry run, the first response outside 2xx raises  *)
(* an error carrying its status and status text, and no request follows    *)
(* it: the failing request is the last one issued, every request before it *)
(* is for an earlier flavor, and when the very first response fails        *)
(* exactly one request was issued, for the first flavor with a finite pct. *)
C1_FailureStopsPublishing ==
    (opts.token # "" /\ ~opts.dryRun) =>
        \A k \in 1..Len(responses) :
            ~Is2xx(responses[k]) =>
                /\ k = Len(responses)
                /\ Len(requests) = k
                /\ pc = "failed"
                /\ error = [name |-> "PublishError", status |-> responses[k].status,
                            statusText |-> responses[k].statusText]
                /\ \A j \in 1..(k - 1) :
                       Position(requests[j].flavor) < Position(requests[k].flavor)
                /\ requests[k].flavor = FiniteInOrder[k]

\* The first request failed while later flavors were eligible.
C1_Witness ==
    /\ pc = "failed"
    /\ error.name = "PublishError"
    /\ Len(responses) = 1
    /\ Len(requests) = 1
    /\ Loaded
    /\ Len(FiniteInOrder) >= 3

(* C2: with an empty token there is no request and no diagnostic record,   *)
(* whatever the summary and dryRun are, and publishCoverage returns        *)
(* without an error.                                                       *)
C2_NoTokenNoOp ==
    opts.token = "" =>
        /\ requests = <<>>
        /\ logs = <<>>
        /\ Loaded => (pc = "done" /\ error = NoError)

\* publishCoverage returned for a summary with finite flavors, dry run set.
C2_Witness ==
    /\ opts.token = ""
    /\ opts.dryRun
    /\ Loaded
    /\ pc = "done"
    /\ Len(FiniteInOrder) = 4

(* C3: with dryRun set and a token there is no request, publishCoverage    *)
(* returns without an error, and the diagnostic records are exactly one    *)
(* per flavor with a finite pct, in order, and none for the others.        *)
C3_DryRunLogsOnly ==
    (opts.dryRun /\ opts.token # "") =>
        /\ requests = <<>>
        /\ responses = <<>>
        /\ IF Loaded
           THEN pc = "done" /\ error = NoError /\ logs = ExpectedRecords
           ELSE logs = <<>>

\* A dry run over a summary with finite and non-finite flavors.
C3_Witness ==
    /\ opts.dryRun
    /\ opts.token # ""
    /\ Loaded
    /\ pc = "done"
    /\ Len(logs) = 2
    /\ Len(FiniteInOrder) = 2

(* C4: with a token, no dry run and only 2xx responses, the requests issued *)
(* are the flavors with a finite pct in the stated order, one each: at any  *)
(* moment they are a prefix of that sequence, a request is issued only once *)
(* every earlier one has its response, and at the end they are all of it.   *)
C4_RequestsInOrder ==
    (opts.token # "" /\ ~opts.dryRun /\ Loaded
       /\ \A k \in 1..Len(responses) : Is2xx(responses[k])) =>
        /\ Len(requests) <= Len(ExpectedRecords)
        /\ requests = SubSeq(ExpectedRecords, 1, Len(requests))
        /\ logs = <<>>
        /\ pc = "awaiting" => Len(requests) = Len(responses) + 1
        /\ pc = "done" => (requests = ExpectedRecords /\ Len(responses) = Len(requests)
                           /\ error = NoError)
        /\ pc = "failed" => (error.name = "FetchError"
                             /\ Len(requests) = Len(responses) + 1)

\* Three requests, all answered 2xx, one flavor skipped for its NaN pct.
C4_Witness ==
    /\ opts.token # ""
    /\ ~opts.dryRun
    /\ pc = "done"
    /\ Len(requests) = 3
    /\ Len(responses) = 3
    /\ Loaded
    /\ summary[1]["statements"].pct = NaN

\* The file name ends in .json.
EndsInJson(name) ==
    \E n \in 0..Len(name) : name = SubSeq(name, 1, n) \o <<".", "j", "s", "o", "n">>

\* The three ways normalization fails that C5 names.
NormalizationFails ==
    \/ opts.coverageFormat \notin {"summary", "istanbul", "lcov", "cobertura"}
    \/ opts.coverageFormat \in {"summary", "istanbul"} /\ ~EndsInJson(opts.coverage)
    \/ opts.coverageFormat = "summary" /\ file.total = <<>>

(* C5: when normalization fails (unknown format; summary or istanbul with a *)
(* file name not ending in .json; a summary file without `total`), run      *)
(* raises an error and publishCoverage is never entered: no summary, no     *)
(* request, no diagnostic record.                                           *)
C5_FailedNormalizationPublishesNothing ==
    (NormalizationFails /\ pc # "start") =>
        /\ pc = "failed"
        /\ error.name \in {"AssertionError", "UnknownFormat"}
        /\ ~Loaded
        /\ idx = 0
        /\ requests = <<>>
        /\ responses = <<>>
        /\ logs = <<>>

\* run failed on an istanbul report whose name does not end in .json.
C5_Witness ==
    /\ pc = "failed"
    /\ opts.coverageFormat = "istanbul"
    /\ ~EndsInJson(opts.coverage)
    /\ Len(file) = 1
    /\ opts.token # ""
    /\ ~opts.dryRun

---------------------------------------------------------------------------
(* LCOV aggregation.                                                       *)

\* The count a section contributes: the field of the sub-record it carries
\* for the flavor, nothing when it carries none or the field is absent.
Contribution(section, f, field) ==
    IF f \in DOMAIN section /\ section[f][field].k = "num"
    THEN section[f][field].n
    ELSE 0

RECURSIVE SumUpTo(_, _, _, _)
SumUpTo(records, n, f, field) ==
    IF n = 0 THEN 0
    ELSE SumUpTo(records, n - 1, f, field) + Contribution(records[n], f, field)

\* The two sections of the stated example.
LcovExample ==
    <<[lines |-> [instrumented |-> Num(10), hit |-> Num(5)]],
      [lines |-> [instrumented |-> Num(20), hit |-> Num(15)]]>>

(* C6: for an LCOV report, each of branches, functions and lines has total  *)
(* the sum of instrumented over the sections carrying that sub-record,      *)
(* covered the sum of hit, and pct = covered/total*100 (100 when total is   *)
(* 0); statements is {total 0, covered 0, pct NaN}; the two example         *)
(* sections give lines {total 30, covered 20, pct 200/3}.                   *)
C6_LcovSums ==
    (opts.coverageFormat = "lcov" /\ Loaded) =>
        /\ \A f \in {"branches", "functions", "lines"} :
            LET t == SumUpTo(file, Len(file), f, "instrumented")
                c == SumUpTo(file, Len(file), f, "hit")
                b == summary[1][f]
            IN  /\ b.total = [k |-> "num", n |-> t, d |-> 1]
                /\ b.covered = [k |-> "num", n |-> c, d |-> 1]
                /\ b.pct.k = "num"
                /\ IF t = 0 THEN b.pct.n = 100 /\ b.pct.d = 1
                   ELSE b.pct.n * t = 100 * c * b.pct.d
        /\ summary[1]["statements"].total.n = 0
        /\ summary[1]["statements"].covered.n = 0
        /\ summary[1]["statements"].pct.k = "NaN"
        /\ file = LcovExample =>
              /\ summary[1]["lines"].total.n = 30
              /\ summary[1]["lines"].covered.n = 20
              /\ summary[1]["lines"].pct = [k |-> "num", n |-> 200, d |-> 3]

\* The example report was loaded.
C6_Witness ==
    /\ opts.coverageFormat = "lcov"
    /\ Loaded
    /\ file = LcovExample
    /\ summary[1]["lines"].total.n = 30
    /\ summary[1]["branches"].pct.n = 100

---------------------------------------------------------------------------
(* summary files.                                                          *)

(* C7 as stated: every bucket of a summary file is returned exactly as     *)
(* stored under `total`, its pct included, even when that pct is not the   *)
(* one its counts give.                                                    *)
C7_CopiedThroughUnchanged ==
    (opts.coverageFormat = "summary" /\ Loaded) =>
        \A f \in DOMAIN file.total[1] : summary[1][f] = file.total[1][f]

(* C7 as amended: total, covered and skipped of every bucket stored under  *)
(* `total` are returned as stored; pct is derived from the returned counts *)
(* (100 when total is 0, else covered/total*100 cut to two decimals), so   *)
(* it is the stored pct only when the stored pct is that value: stored     *)
(* {total 10, covered 7, pct 70} gives pct 70.  A flavor absent from       *)
(* `total` is returned blank.                                              *)
C7_CountsCopiedPctDerived ==
    (opts.coverageFormat = "summary" /\ Loaded) =>
        \A f \in {"lines", "statements", "branches", "functions"} :
            LET b == summary[1][f]
            IN  IF f \in DOMAIN file.total[1]
                THEN LET stored == file.total[1][f]
                         h == (b.pct.n * 100) \div b.pct.d
                     IN  /\ b.total = stored.total
                         /\ b.covered = stored.covered
                         /\ b.skipped = stored.skipped
                         /\ b.pct.k = "num"
                         /\ IF b.total.n = 0 THEN b.pct.n = 100 /\ b.pct.d = 1
                            ELSE /\ (b.pct.n * 100) % b.pct.d = 0
                                 /\ h * b.total.n <= 10000 * b.covered.n
                                 /\ 10000 * b.covered.n < (h + 1) * b.total.n
                         /\ (stored.total.n = 10 /\ stored.covered.n = 7
                               /\ stored.pct.n = 70) => b.pct = stored.pct
                ELSE b.total.n = 0 /\ b.covered.n = 0 /\ b.pct.k = "Unknown"

\* A file whose stored pct (50) is not the one its counts give (70).
C7_Witness ==
    /\ opts.coverageFormat = "summary"
    /\ Loaded
    /\ "lines" \in DOMAIN file.total[1]
    /\ file.total[1]["lines"].total.n = 10
    /\ file.total[1]["lines"].covered.n = 7
    /\ file.total[1]["lines"].pct.n = 50
    /\ summary[1]["lines"].pct.n = 70

---------------------------------------------------------------------------
(* Cobertura.                                                              *)

\* The numeric value of the attribute texts of the reports considered.
NumericValue(v) ==
    CASE ~v.present -> [k |-> "NaN", n |-> 0, d |-> 1]
      [] v.present /\ v.text = <<>> -> [k |-> "num", n |-> 0, d |-> 1]
      [] v.present /\ v.text = <<"0">> -> [k |-> "num", n |-> 0, d |-> 1]
      [] v.present /\ v.text = <<"1">> -> [k |-> "num", n |-> 1, d |-> 1]
      [] v.present /\ v.text = <<"2">> -> [k |-> "num", n |-> 2, d |-> 1]
      [] v.present /\ v.text = <<"2", "5">> -> [k |-> "num", n |-> 25, d |-> 1]
      [] v.present /\ v.text = <<"5", "0">> -> [k |-> "num", n |-> 50, d |-> 1]
      [] v.present /\ v.text = <<"0", ".", "5">> -> [k |-> "num", n |-> 1, d |-> 2]
      [] v.present /\ v.text = <<"1", ".", "5">> -> [k |-> "num", n |-> 3, d |-> 2]

\* rate * 100 is the pct p.
IsRateTimes100(p, rate) ==
    IF rate.k = "num" THEN p.k = "num" /\ p.n * rate.d = 100 * rate.n * p.d
    ELSE p.k = "NaN"

(* C8: for a Cobertura report, lines and branches hold the numeric values  *)
(* of lines-valid, lines-covered, branches-valid and branches-covered, and *)
(* their pct is line-rate*100 and branch-rate*100, whatever covered/total  *)
(* is: lines-valid 50, lines-covered 25, line-rate 0.5 give                *)
(* {total 50, covered 25, pct 50}.                                         *)
C8_CoberturaFromAttributes ==
    (opts.coverageFormat = "cobertura" /\ Loaded) =>
        LET a == file.attrs
            l == summary[1]["lines"]
            b == summary[1]["branches"]
        IN  /\ l.total = NumericValue(a["lines-valid"])
            /\ l.covered = NumericValue(a["lines-covered"])
            /\ IsRateTimes100(l.pct, NumericValue(a["line-rate"]))
            /\ b.total = NumericValue(a["branches-valid"])
            /\ b.covered = NumericValue(a["branches-covered"])
            /\ IsRateTimes100(b.pct, NumericValue(a["branch-rate"]))
            /\ (a["lines-valid"].text = <<"5", "0">>
                  /\ a["lines-covered"].text = <<"2", "5">>
                  /\ a["line-rate"].text = <<"0", ".", "5">>) =>
                   (l.total.n = 50 /\ l.covered.n = 25 /\ l.pct.n = 50 /\ l.pct.d = 1)

\* A report whose line-rate (1.5) is not covered/total (25/50).
C8_Witness ==
    /\ opts.coverageFormat = "cobertura"
    /\ Loaded
    /\ file.attrs["line-rate"].text = <<"1", ".", "5">>
    /\ summary[1]["lines"].total.n = 50
    /\ summary[1]["lines"].covered.n = 25
    /\ summary[1]["lines"].pct.n = 150

---------------------------------------------------------------------------
(* The zero-total policy and the ranges.                                   *)

\* The flavors a format reports.
Reported(format) ==
    CASE format = "lcov" -> {"branches", "functions", "lines"}
      [] format = "cobertura" -> {"branches", "lines"}
      [] format = "istanbul" -> {"lines", "statements", "branches", "functions"}
      [] format = "summary" -> DOMAIN file.total[1]

AllFlavors == {"lines", "statements", "branches", "functions"}

NeverPublished(f) ==
    /\ \A i \in 1..Len(requests) : requests[i].flavor # f
    /\ \A i \in 1..Len(logs) : logs[i].flavor # f

IsZero(x) == x.k = "num" /\ x.n = 0

IsHundred(x) == x.k = "num" /\ x.n = 100 /\ x.d = 1

\* a <= b between numbers; false when either is not one.
Leq(a, b) == a.k = "num" /\ b.k = "num" /\ a.n * b.d <= b.n * a.d

\* 0 <= p <= 100
InRange(p) == p.k = "num" /\ 0 <= p.n /\ p.n <= 100 * p.d

(* C9 as stated: on the LCOV and istanbul paths every bucket with total 0  *)
(* has pct 100; the buckets a format does not report (Cobertura statements *)
(* and functions, LCOV statements) are {total 0, covered 0, pct NaN} and   *)
(* are never published.                                                    *)
C9_ZeroTotalPolicy ==
    Loaded =>
        /\ opts.coverageFormat \in {"lcov", "istanbul"} =>
              \A f \in Reported(opts.coverageFormat) :
                  IsZero(summary[1][f].total) => IsHundred(summary[1][f].pct)
        /\ opts.coverageFormat \in {"lcov", "cobertura"} =>
              \A f \in AllFlavors \ Reported(opts.coverageFormat) :
                  /\ IsZero(summary[1][f].total)
                  /\ IsZero(summary[1][f].covered)
                  /\ summary[1][f].pct.k = "NaN"
                  /\ NeverPublished(f)

WellFormedInput ==
    CASE opts.coverageFormat = "summary" ->
           \A f \in DOMAIN file.total[1] :
               file.total[1][f].covered.n <= file.total[1][f].total.n
      [] opts.coverageFormat = "istanbul" -> TRUE
      [] opts.coverageFormat = "lcov" ->
           \A i \in 1..Len(file) : \A f \in DOMAIN file[i] :
               Contribution(file[i], f, "hit") <= Contribution(file[i], f, "instrumented")
      [] opts.coverageFormat = "cobertura" ->
           LET a == file.attrs
               num(name) == NumericValue(a[name])
           IN  /\ \A name \in DOMAIN a : num(name).k = "num"
               /\ num("lines-covered").n <= num("lines-valid").n
               /\ num("branches-covered").n <= num("branches-valid").n
               /\ num("line-rate").n <= num("line-rate").d
               /\ num("branch-rate").n <= num("branch-rate").d

\* The buckets that received no data: those the format does not report, and
\* every bucket of an istanbul coverage map without files.
NoData(f) ==
    \/ f \notin Reported(opts.coverageFormat)
    \/ opts.coverageFormat = "istanbul" /\ file = <<>>

=============================================================================
